---- MODULE Spec2Model ----
(***************************************************************************)
(* Model of scripts/convert-config.py and scripts/generate-dockerfile.py.  *)
(*                                                                         *)
(* Python strings are sequences of one-character strings, so that          *)
(* startswith, basename, split, join, replace and sorted are computed the  *)
(* way the scripts compute them.  A dict is a function whose domain is the *)
(* set of keys present; the ordered dict "mcpServers" is the sequence of   *)
(* its items in insertion order, each item [name, cfg].  An optional value *)
(* (None or a string) is a sequence of length 0 or 1.                      *)
(***************************************************************************)
EXTENDS Integers, Sequences, FiniteSets, TLC

VARIABLES
    script,            \* which script runs: "convert", "dockerfile", "render"
    pc,                \* position of the run inside the script
    fs,                \* npm's global root and what is installed under it
    original_config,   \* the configuration as loaded from the input file
    config,            \* the argument of the current call
    i,                 \* index of the next item of the loop being run
    converted_config,  \* convert_npx_to_binary: the dict being built
    package_name,      \* convert_npx_to_binary: local of the last iteration
    remaining_args,    \* convert_npx_to_binary: local of the last iteration
    results,           \* values returned by successive convert calls
    log,               \* lines printed, each tagged with the entry at hand
    packages,          \* extract_packages_from_config: the three sets
    install_lines,     \* generate_install_commands: the install plan
    template_content,  \* main: lines of Dockerfile.template
    output_lines       \* main: lines of the Dockerfile

vars == <<script, pc, fs, original_config, config, i, converted_config,
          package_name, remaining_args, results, log, packages,
          install_lines, template_content, output_lines>>

-----------------------------------------------------------------------------
(* Bounds of the explored inputs. *)

\* server entries of one configuration
MaxServers == 2
\* server entries of one configuration made of package-naming entries only
MaxPackageServers == 4
\* entries plus argument tokens plus "env" fields of one configuration
MaxSize == 4
\* lines of a template
MaxLines == 3

-----------------------------------------------------------------------------
(* Strings. *)

None == <<>>
Some(v) == <<v>>

\* Python truthiness of an optional string: neither None nor ''
Truthy(opt) == opt # None /\ opt[1] # <<>>

StartsWith(s, prefix) ==
    /\ Len(s) >= Len(prefix)
    /\ SubSeq(s, 1, Len(prefix)) = prefix

NPX == <<"n", "p", "x">>
UVX == <<"u", "v", "x">>
PYTHON == <<"p", "y", "t", "h", "o", "n">>
DashY == <<"-", "y">>
DashM == <<"-", "m">>
Dash == <<"-">>
At == <<"@">>
Slash == "/"

\* index of the last '/' of s, 0 when there is none
RECURSIVE LastSlash(_, _)
LastSlash(s, k) ==
    IF k = 0 THEN 0
    ELSE IF s[k] = Slash THEN k
    ELSE LastSlash(s, k - 1)

\* os.path.basename: what follows the last '/'
Basename(s) == SubSeq(s, LastSlash(s, Len(s)) + 1, Len(s))

\* s.split('/')[-1]: what follows the last '/'
SplitLast(s) == SubSeq(s, LastSlash(s, Len(s)) + 1, Len(s))

-----------------------------------------------------------------------------
(* The inputs explored: configurations and the state of npm's global root. *)

\* an arbitrary command that is none of the recognized ones
NODE == <<"n", "o", "d", "e">>
TokScoped == <<"@", "s", "/", "a">>
TokPlain == <<"b">>
TokEmpty == <<>>

Commands == {NPX, UVX, PYTHON, NODE}
CommandOptions == {Some(x) : x \in Commands}
EnvOptions == {None, Some([API_KEY |-> "secret"])}
Tokens == {DashY, DashM, TokScoped, TokPlain, TokEmpty}

\* "args" absent, or a non-empty list of at most n tokens
ArgOptions(n) == {None} \cup {Some(x) : x \in UNION {[1..k -> Tokens] : k \in 1..n}}

\* a server entry: a dict whose keys "command", "args", "env" are optional
MkEntry(c, a, e) ==
    [k \in (IF c # None THEN {"command"} ELSE {})
            \cup (IF a # None THEN {"args"} ELSE {})
            \cup (IF e # None THEN {"env"} ELSE {}) |->
        CASE k = "command" -> c[1]
          [] k = "args" -> a[1]
          [] k = "env" -> e[1]]

EntrySize(e) ==
    1 + (IF "args" \in DOMAIN e THEN Len(e.args) ELSE 0)
      + (IF "env" \in DOMAIN e THEN 1 ELSE 0)

Entries(n) ==
    {e \in {MkEntry(c, a, v) :
                c \in CommandOptions, a \in ArgOptions(n - 1), v \in EnvOptions} :
        EntrySize(e) <= n}

\* the items of "mcpServers" in insertion order; the k-th key is the name k
RECURSIVE ServerItems(_, _)
ServerItems(n, k) ==
    IF k > MaxServers THEN {<<>>}
    ELSE {<<>>} \cup
         UNION {{<<[name |-> k, cfg |-> e]>> \o rest :
                     rest \in ServerItems(n - EntrySize(e), k + 1)} :
                e \in Entries(n)}

\* a configuration: a dict whose keys "mcpServers" and "version" are optional
Configs ==
    {[k \in {} |-> 0], [version |-> 1]}
    \cup {[mcpServers |-> items] : items \in ServerItems(MaxSize, 1)}
    \cup {[mcpServers |-> items, version |-> 1] :
             items \in ServerItems(MaxSize - 1, 1)}

Items(cfg) == IF "mcpServers" \in DOMAIN cfg THEN cfg.mcpServers ELSE <<>>

\* entries that name a package of each ecosystem, two packages apiece
PackageEntries ==
    {[command |-> NPX, args |-> <<TokScoped>>],
     [command |-> NPX, args |-> <<DashY, TokPlain>>],
     [command |-> PYTHON, args |-> <<DashM, TokScoped>>],
     [command |-> PYTHON, args |-> <<DashM, TokPlain>>],
     [command |-> UVX, args |-> <<TokScoped>>],
     [command |-> UVX, args |-> <<TokPlain>>]}

\* the configurations of up to MaxPackageServers such entries, in every
\* order and with repetitions
PackageConfigs ==
    {[mcpServers |-> [k \in DOMAIN f |-> [name |-> k, cfg |-> f[k]]]] :
        f \in UNION {[1..n -> PackageEntries] : n \in 1..MaxPackageServers}}

\* package.json's "bin": absent, a string, a dict (its keys in order), null
BinStr(s) == [type |-> "str", str |-> s, keys |-> <<>>]
BinDict(ks) == [type |-> "dict", str |-> <<>>, keys |-> ks]
BinNull == [type |-> "null", str |-> <<>>, keys |-> <<>>]
Manifest(bin) == [exists |-> TRUE, package_json |-> "ok", bin |-> bin]
NoDir == [exists |-> FALSE, package_json |-> "missing", bin |-> None]
NoPackageJson == [exists |-> TRUE, package_json |-> "missing", bin |-> None]
BadPackageJson == [exists |-> TRUE, package_json |-> "invalid", bin |-> None]

InstallStates ==
    {NoDir, NoPackageJson,
     Manifest(None),
     Manifest(Some(BinStr(<<>>))),
     Manifest(Some(BinStr(<<"c", ".", "j", "s">>))),
     Manifest(Some(BinDict(<<>>))),
     Manifest(Some(BinDict(<<<<"c", "l", "i">>, NPX>>))),
     Manifest(Some(BinDict(<<NPX>>)))}

\* the tokens npm may be asked about: non-flag, non-empty arguments of npx
Candidates(cfg) ==
    {t \in Tokens \ {TokEmpty} :
        /\ ~StartsWith(t, Dash)
        /\ \E k \in 1..Len(Items(cfg)) :
              LET e == Items(cfg)[k].cfg IN
              /\ "command" \in DOMAIN e /\ e.command = NPX
              /\ "args" \in DOMAIN e
              /\ \E j \in 1..Len(e.args) : e.args[j] = t}

FileSystems(cfg) ==
    {[npm_root_ok |-> FALSE, node_modules |-> [p \in Candidates(cfg) |-> NoDir]]}
    \cup {[npm_root_ok |-> TRUE, node_modules |-> m] :
             m \in [Candidates(cfg) -> InstallStates]}

-----------------------------------------------------------------------------
(* scripts/convert-config.py *)

\* dict.get(key, default)
Get(d, key, default) == IF key \in DOMAIN d THEN d[key] ELSE default

Line(server, msg) == [server |-> server, msg |-> msg]

\* the name a manifest's "bin" gives, or None
BinaryFromManifest(name, bin_data) ==
    IF bin_data.type = "str"
    THEN LET binary_name == Basename(name) IN
         IF StartsWith(binary_name, At)
         THEN Some(SplitLast(binary_name))
         ELSE Some(binary_name)
    ELSE IF bin_data.type = "dict" /\ bin_data.keys # <<>>
    THEN Some(bin_data.keys[1])
    ELSE None

\* find_binary_for_package: the value returned and the messages printed
find_binary_for_package(name) ==
    IF ~fs.npm_root_ok
    THEN [binary |-> None, out |-> <<"Error finding binary">>]
    ELSE LET st == Get(fs.node_modules, name, NoDir) IN
         IF ~st.exists
         THEN [binary |-> None, out |-> <<"Package directory not found">>]
         ELSE IF st.package_json = "missing"
         THEN [binary |-> None, out |-> <<"package.json not found">>]
         ELSE IF st.package_json = "invalid"
         THEN [binary |-> None, out |-> <<"Error finding binary">>]
         ELSE LET bin_data == IF st.bin = None THEN BinDict(<<>>) ELSE st.bin[1]
                  found == BinaryFromManifest(name, bin_data)
              IN  IF found # None
                  THEN [binary |-> found, out |-> <<>>]
                  ELSE [binary |-> None,
                        out |-> <<"No binary found in package.json">>]

\* the loop over the args of an npx entry, from the k-th argument on
RECURSIVE ClassifyArgs(_, _, _, _)
ClassifyArgs(args, k, pkg, rem) ==
    IF k > Len(args)
    THEN [package_name |-> pkg, remaining_args |-> rem]
    ELSE LET arg == args[k] IN
         IF arg = DashY
         THEN ClassifyArgs(args, k + 1, pkg, rem)
         ELSE IF StartsWith(arg, At) \/ (~StartsWith(arg, Dash) /\ pkg = None)
         THEN IF ~StartsWith(arg, Dash)
              THEN ClassifyArgs(args, k + 1, Some(arg), rem)
              ELSE ClassifyArgs(args, k + 1, pkg, Append(rem, arg))
         ELSE ClassifyArgs(args, k + 1, pkg, Append(rem, arg))

\* new_server_config['command'] = command; new_server_config['args'] = args
WithCommandArgs(d, command, args) ==
    [k \in DOMAIN d \cup {"command", "args"} |->
        CASE k = "command" -> command
          [] k = "args" -> args
          [] OTHER -> d[k]]

\* mutant: the command is not looked at
IsNpxCallAnyCommand(command, args) == args # <<>>

\* the entries convert_npx_to_binary rewrites: command == 'npx' and args
IsNpxCall(command, args) == command = NPX /\ args # <<>>

\* one iteration of the loop over the servers: the entry emitted, the locals
\* left behind and the lines printed
ConvertServer(server_name, server_config, old_package_name, old_remaining_args) ==
    LET command == Get(server_config, "command", <<>>)
        args == Get(server_config, "args", <<>>)
    IN  IF IsNpxCall(command, args)
        THEN LET c == ClassifyArgs(args, 1, None, <<>>) IN
             IF Truthy(c.package_name)
             THEN LET f == find_binary_for_package(c.package_name[1])
                      prints == [k \in 1..Len(f.out) |-> Line(server_name, f.out[k])]
                  IN  IF Truthy(f.binary)
                      THEN [new_server_config |->
                                WithCommandArgs(server_config, f.binary[1],
                                                c.remaining_args),
                            package_name |-> c.package_name,
                            remaining_args |-> c.remaining_args,
                            out |-> Append(prints, Line(server_name, "Converted"))]
                      ELSE [new_server_config |-> server_config,
                            package_name |-> c.package_name,
                            remaining_args |-> c.remaining_args,
                            out |-> Append(prints,
                                     Line(server_name,
                                          "Warning: Could not find binary"))]
             ELSE [new_server_config |-> server_config,
                   package_name |-> c.package_name,
                   remaining_args |-> c.remaining_args,
                   out |-> <<>>]
        ELSE [new_server_config |-> server_config,
              package_name |-> old_package_name,
              remaining_args |-> old_remaining_args,
              out |-> <<>>]

\* the dict a call starts to build
EmptyConverted == [mcpServers |-> <<>>]

\* mutant: a configuration without the key is returned as an empty mapping
ReturnEmptyServers(cfg) == EmptyConverted

\* what a call returns when the configuration has no "mcpServers" key
ReturnWithoutServers(cfg) == cfg

\* convert_npx_to_binary is entered: no "mcpServers" key returns at once
ConvertCall ==
    /\ script = "convert" /\ pc = "call"
    /\ IF "mcpServers" \notin DOMAIN config
       THEN /\ results' = Append(results, ReturnWithoutServers(config))
            /\ pc' = "returned"
            /\ UNCHANGED <<converted_config, i>>
       ELSE /\ converted_config' = EmptyConverted
            /\ i' = 1
            /\ pc' = "loop"
            /\ UNCHANGED results
    /\ UNCHANGED <<script, fs, original_config, config, package_name,
                   remaining_args, log, packages, install_lines,
                   template_content, output_lines>>

\* one iteration of the loop over config['mcpServers'].items()
ConvertEntry ==
    /\ script = "convert" /\ pc = "loop" /\ i <= Len(config.mcpServers)
    /\ LET item == config.mcpServers[i]
           r == ConvertServer(item.name, item.cfg, package_name, remaining_args)
       IN  /\ converted_config' =
                 [converted_config EXCEPT !.mcpServers =
                     Append(@, [name |-> item.name, cfg |-> r.new_server_config])]
           /\ package_name' = r.package_name
           /\ remaining_args' = r.remaining_args
           /\ log' = log \o r.out
    /\ i' = i + 1
    /\ UNCHANGED <<script, pc, fs, original_config, config, results, packages,
                   install_lines, template_content, output_lines>>

\* the loop is over: return converted_config
ConvertReturn ==
    /\ script = "convert" /\ pc = "loop" /\ i > Len(config.mcpServers)
    /\ results' = Append(results, converted_config)
    /\ pc' = "returned"
    /\ UNCHANGED <<script, fs, original_config, config, i, converted_config,
                   package_name, remaining_args, log, packages, install_lines,
                   template_content, output_lines>>

\* convert_npx_to_binary is applied to the configuration it returned
ConvertAgain ==
    /\ script = "convert" /\ pc = "returned" /\ Len(results) = 1
    /\ config' = results[Len(results)]
    /\ pc' = "call"
    /\ i' = 0
    /\ converted_config' = [k \in {} |-> 0]
    /\ package_name' = None
    /\ remaining_args' = <<>>
    /\ log' = <<>>
    /\ UNCHANGED <<script, fs, original_config, results, packages,
                   install_lines, template_content, output_lines>>

-----------------------------------------------------------------------------
(* scripts/generate-dockerfile.py *)

NoPackages == [npm |-> {}, pip |-> {}, uv |-> {}]

\* mutant: a plain first argument counts as the package
RECURSIVE NpxPackageAnyIndex(_, _)
NpxPackageAnyIndex(args, k) ==
    IF k > Len(args) THEN None
    ELSE IF (StartsWith(args[k], At) \/ ~StartsWith(args[k], Dash))
            /\ ~StartsWith(args[k], Dash)
    THEN Some(args[k])
    ELSE NpxPackageAnyIndex(args, k + 1)

\* the npx rule: the first argument that starts with '@', or that does not
\* start with '-' and is not the very first one; k is the index from 1
RECURSIVE NpxPackage(_, _)
NpxPackage(args, k) ==
    IF k > Len(args) THEN None
    ELSE IF (StartsWith(args[k], At) \/ (~StartsWith(args[k], Dash) /\ k - 1 > 0))
            /\ ~StartsWith(args[k], Dash)
    THEN Some(args[k])
    ELSE NpxPackage(args, k + 1)

\* the uvx rule: the first argument that does not start with '-'
RECURSIVE UvxPackage(_, _)
UvxPackage(args, k) ==
    IF k > Len(args) THEN None
    ELSE IF ~StartsWith(args[k], Dash) /\ k - 1 >= 0
    THEN Some(args[k])
    ELSE UvxPackage(args, k + 1)

\* the python rule: args[1] when args[0] == '-m'
PythonPackage(args) ==
    IF Len(args) >= 2 /\ args[1] = DashM THEN Some(args[2]) ELSE None

\* mutant: 'or' for 'and' in the uvx branch
ExtractBranchLoose(command, args) ==
    IF command = NPX /\ args # <<>> THEN "npx"
    ELSE IF command = UVX \/ args # <<>> THEN "uvx"
    ELSE IF command = PYTHON /\ args # <<>> THEN "python"
    ELSE "direct"

\* the branch of the if/elif chain an entry takes
ExtractBranch(command, args) ==
    IF command = NPX /\ args # <<>> THEN "npx"
    ELSE IF command = UVX /\ args # <<>> THEN "uvx"
    ELSE IF command = PYTHON /\ args # <<>> THEN "python"
    ELSE "direct"

\* one iteration of the loop over the servers: the package sets afterwards
\* and the lines printed
ExtractServer(pk, server_name, server_config) ==
    LET command == Get(server_config, "command", <<>>)
        args == Get(server_config, "args", <<>>)
        branch == ExtractBranch(command, args)
    IN  IF branch = "npx"
        THEN LET found == NpxPackage(args, 1) IN
             IF Truthy(found)
             THEN [packages |-> [pk EXCEPT !.npm = @ \cup {found[1]}],
                   out |-> <<Line(server_name, "Found npm package")>>]
             ELSE [packages |-> pk, out |-> <<>>]
        ELSE IF branch = "uvx"
        THEN LET found == UvxPackage(args, 1) IN
             IF Truthy(found)
             THEN [packages |-> [pk EXCEPT !.uv = @ \cup {found[1]}],
                   out |-> <<Line(server_name, "Found uv package")>>]
             ELSE [packages |-> pk, out |-> <<>>]
        ELSE IF branch = "python"
        THEN LET found == PythonPackage(args) IN
             IF found # None
             THEN [packages |-> [pk EXCEPT !.pip = @ \cup {found[1]}],
                   out |-> <<Line(server_name, "Found pip package")>>]
             ELSE [packages |-> pk, out |-> <<>>]
        ELSE [packages |-> pk,
              out |-> <<Line(server_name, "Skipping direct command")>>]

\* newline and printable ASCII characters, in increasing code point order
CodePoints ==
    <<"\n", " ", "!", "#", "$", "%", "&", "'", "(", ")", "*", "+", ",",
      "-", ".", "/", "0", "1", "2", "3", "4", "5", "6", "7", "8", "9", ":",
      ";", "<", "=", ">", "?", "@", "A", "B", "C", "D", "E", "F", "G", "H",
      "I", "J", "K", "L", "M", "N", "O", "P", "Q", "R", "S", "T", "U", "V",
      "W", "X", "Y", "Z", "[", "\\", "]", "^", "_", "a", "b", "c", "d",
      "e", "f", "g", "h", "i", "j", "k", "l", "m", "n", "o", "p", "q", "r",
      "s", "t", "u", "v", "w", "x", "y", "z", "{", "|", "}", "~">>

Ord(c) == CHOOSE k \in 1..Len(CodePoints) : CodePoints[k] = c

\* a < b for Python strings: lexicographic by code point
RECURSIVE StrLess(_, _)
StrLess(a, b) ==
    IF b = <<>> THEN FALSE
    ELSE IF a = <<>> THEN TRUE
    ELSE IF a[1] = b[1] THEN StrLess(Tail(a), Tail(b))
    ELSE Ord(a[1]) < Ord(b[1])

\* mutant: descending order
BeforeDescending(a, b) == StrLess(b, a)

\* which of two strings sorted() puts first
Before(a, b) == StrLess(a, b)

\* sorted(S) for a set of strings
RECURSIVE Sorted(_)
Sorted(S) ==
    IF S = {} THEN <<>>
    ELSE LET first == CHOOSE x \in S : \A y \in S \ {x} : Before(x, y)
         IN  <<first>> \o Sorted(S \ {first})

NpmPrefix ==
    <<" ", "&", "&", " ", "n", "p", "m", " ", "i", "n", "s", "t", "a", "l",
      "l", " ", "-", "g", " ">>
PipPrefix ==
    <<" ", "&", "&", " ", "p", "i", "p", "3", " ", "i", "n", "s", "t", "a",
      "l", "l", " ", "-", "-", "n", "o", "-", "c", "a", "c", "h", "e", "-",
      "d", "i", "r", " ", "-", "-", "b", "r", "e", "a", "k", "-", "s", "y",
      "s", "t", "e", "m", "-", "p", "a", "c", "k", "a", "g", "e", "s", " ">>
UvPrefix ==
    <<" ", "&", "&", " ", "u", "v", " ", "t", "o", "o", "l", " ", "i", "n",
      "s", "t", "a", "l", "l", " ">>

\* the install lines of one ecosystem: one per package, sorted
InstallGroup(prefix, S) ==
    LET sorted == Sorted(S) IN [k \in 1..Len(sorted) |-> prefix \o sorted[k]]

generate_install_commands(pk) ==
    InstallGroup(NpmPrefix, pk.npm)
    \o InstallGroup(PipPrefix, pk.pip)
    \o InstallGroup(UvPrefix, pk.uv)

Placeholder ==
    <<"{", "{", "r", "a", "n", "g", "e", " ", ".", "M", "C", "P", "P", "a",
      "c", "k", "a", "g", "e", "s", "}", "}", " ", "&", "&", " ", "n", "p",
      "m", " ", "i", "n", "s", "t", "a", "l", "l", " ", "-", "g", " ", "{",
      "{", ".", "}", "}", "{", "{", "e", "n", "d", "}", "}">>

\* " \\\n"
Continuation == <<" ", "\\", "\n">>

\* sub in s
Contains(s, sub) ==
    \E k \in 1..(Len(s) - Len(sub) + 1) : SubSeq(s, k, k + Len(sub) - 1) = sub

\* s.replace(old, new): every occurrence, left to right
RECURSIVE Replace(_, _, _)
Replace(s, old, new) ==
    IF Len(s) < Len(old) THEN s
    ELSE IF StartsWith(s, old)
    THEN new \o Replace(SubSeq(s, Len(old) + 1, Len(s)), old, new)
    ELSE <<s[1]>> \o Replace(Tail(s), old, new)

\* sep.join(lines)
RECURSIVE Join(_, _)
Join(sep, lines) ==
    IF lines = <<>> THEN <<>>
    ELSE IF Len(lines) = 1 THEN lines[1]
    ELSE lines[1] \o sep \o Join(sep, Tail(lines))

\* mutant: with an empty plan the placeholder is blanked, the line kept
RenderedLineKept(line, plan) ==
    IF Contains(line, Placeholder)
    THEN <<Replace(line, Placeholder, Join(Continuation, plan))>>
    ELSE <<line>>

\* one iteration of the loop over the template: the lines appended
RenderedLine(line, plan) ==
    IF Contains(line, Placeholder)
    THEN IF plan # <<>>
         THEN <<Replace(line, Placeholder, Join(Continuation, plan))>>
         ELSE <<>>
    ELSE <<line>>

\* extract_packages_from_config is entered
ExtractCall ==
    /\ script = "dockerfile" /\ pc = "call"
    /\ packages' = NoPackages
    /\ IF "mcpServers" \notin DOMAIN config
       THEN pc' = "extracted" /\ UNCHANGED i
       ELSE pc' = "loop" /\ i' = 1
    /\ UNCHANGED <<script, fs, original_config, config, converted_config,
                   package_name, remaining_args, results, log, install_lines,
                   template_content, output_lines>>

\* one iteration of the loop over config['mcpServers'].items()
ExtractEntry ==
    /\ script = "dockerfile" /\ pc = "loop" /\ i <= Len(config.mcpServers)
    /\ LET item == config.mcpServers[i]
           r == ExtractServer(packages, item.name, item.cfg)
       IN  /\ packages' = r.packages
           /\ log' = log \o r.out
    /\ i' = i + 1
    /\ UNCHANGED <<script, pc, fs, original_config, config, converted_config,
                   package_name, remaining_args, results, install_lines,
                   template_content, output_lines>>

\* the loop is over: return packages
ExtractReturn ==
    /\ script = "dockerfile" /\ pc = "loop" /\ i > Len(config.mcpServers)
    /\ pc' = "extracted"
    /\ UNCHANGED <<script, fs, original_config, config, i, converted_config,
                   package_name, remaining_args, results, log, packages,
                   install_lines, template_content, output_lines>>

\* main: install_lines = generate_install_commands(packages)
GenerateCommands ==
    /\ script = "dockerfile" /\ pc = "extracted"
    /\ install_lines' = generate_install_commands(packages)
    /\ pc' = "generated"
    /\ UNCHANGED <<script, fs, original_config, config, i, converted_config,
                   package_name, remaining_args, results, log, packages,
                   template_content, output_lines>>

\* main: one iteration of the loop over the template's lines
RenderLine ==
    /\ script = "render" /\ pc = "loop" /\ i <= Len(template_content)
    /\ output_lines' = output_lines \o RenderedLine(template_content[i], install_lines)
    /\ i' = i + 1
    /\ UNCHANGED <<script, pc, fs, original_config, config, converted_config,
                   package_name, remaining_args, results, log, packages,
                   install_lines, template_content>>

\* main: the loop is over, the Dockerfile is written
RenderWrite ==
    /\ script = "render" /\ pc = "loop" /\ i > Len(template_content)
    /\ pc' = "written"
    /\ UNCHANGED <<script, fs, original_config, config, i, converted_config,
                   package_name, remaining_args, results, log, packages,
                   install_lines, template_content, output_lines>>

-----------------------------------------------------------------------------
(* The runs explored. *)

\* f.readlines() on a file opened in text mode: the text is cut after every
\* line ending, which is "\n", "\r\n" or a lone "\r" and is read as "\n";
\* a last line without an ending is a line too
RECURSIVE readlines(_)
readlines(text) ==
    LET endings == {k \in 1..Len(text) : text[k] \in {"\n", "\r"}}
    IN  IF text = <<>> THEN <<>>
        ELSE IF endings = {} THEN <<text>>
        ELSE LET k == CHOOSE n \in endings : \A m \in endings : n <= m
                 crlf == /\ text[k] = "\r"
                         /\ k < Len(text)
                         /\ text[k + 1] = "\n"
                 next == IF crlf THEN k + 2 ELSE k + 1
             IN  <<SubSeq(text, 1, k - 1) \o <<"\n">>>>
                     \o readlines(SubSeq(text, next, Len(text)))

\* the pieces of text a template file is made of; the third ends without a
\* newline, so that it is a line only at the end of the file and the start
\* of a longer line anywhere else; the fourth ends with "\r\n"
PlainLine == <<"C", "M", "D", "\n">>
PlaceholderLine == <<"&", "&", " ", "a", "p", "t">> \o Placeholder \o <<"\n">>
TwicePlaceholderLine == Placeholder \o <<" ">> \o Placeholder
BrokenPlaceholderLine ==
    SubSeq(Placeholder, 1, Len(Placeholder) - 1) \o <<"\r", "\n">>
TemplateLines ==
    {PlainLine, PlaceholderLine, TwicePlaceholderLine, BrokenPlaceholderLine}

\* the contents of the template file, and what is read from each
TemplateFiles ==
    {Join(<<>>, pieces) :
        pieces \in UNION {[1..k -> TemplateLines] : k \in 0..MaxLines}}
Templates == {readlines(text) : text \in TemplateFiles}

\* the package sets a rendered plan is generated from
PackageSets ==
    [npm : SUBSET {TokScoped, TokPlain}, pip : SUBSET {TokPlain},
     uv : SUBSET {TokPlain}]

InitConvert ==
    /\ script = "convert"
    /\ pc = "call"
    /\ original_config \in Configs
    /\ config = original_config
    /\ fs \in FileSystems(original_config)
    /\ i = 0
    /\ converted_config = [k \in {} |-> 0]
    /\ package_name = None
    /\ remaining_args = <<>>
    /\ results = <<>>
    /\ log = <<>>
    /\ packages = NoPackages
    /\ install_lines = <<>>
    /\ template_content = <<>>
    /\ output_lines = <<>>

InitDockerfile ==
    /\ script = "dockerfile"
    /\ pc = "call"
    /\ original_config \in Configs \cup PackageConfigs
    /\ config = original_config
    /\ fs = [npm_root_ok |-> FALSE, node_modules |-> [p \in {} |-> NoDir]]
    /\ i = 0
    /\ converted_config = [k \in {} |-> 0]
    /\ package_name = None
    /\ remaining_args = <<>>
    /\ results = <<>>
    /\ log = <<>>
    /\ packages = NoPackages
    /\ install_lines = <<>>
    /\ template_content = <<>>
    /\ output_lines = <<>>

InitRender ==
    /\ script = "render"
    /\ pc = "loop"
    /\ original_config = [k \in {} |-> 0]
    /\ config = original_config
    /\ fs = [npm_root_ok |-> FALSE, node_modules |-> [p \in {} |-> NoDir]]
    /\ i = 1
    /\ converted_config = [k \in {} |-> 0]
    /\ package_name = None
    /\ remaining_args = <<>>
    /\ results = <<>>
    /\ log = <<>>
    /\ packages \in PackageSets
    /\ install_lines = generate_install_commands(packages)
    /\ template_content \in Templates
    /\ output_lines = <<>>

Init == InitConvert \/ InitDockerfile \/ InitRender

Next ==
    \/ ConvertCall \/ ConvertEntry \/ ConvertReturn \/ ConvertAgain
    \/ ExtractCall \/ ExtractEntry \/ ExtractReturn \/ GenerateCommands
    \/ RenderLine \/ RenderWrite
Spec == Init /\ [][Next]_vars

-----------------------------------------------------------------------------
(* Vocabulary of the properties. *)

Command(e) == Get(e, "command", <<>>)
Args(e) == Get(e, "args", <<>>)
IsFlag(t) == Len(t) >= 1 /\ t[1] = "-"
IsScoped(t) == Len(t) >= 1 /\ t[1] = "@"

\* the least index of args that satisfies P, 0 when none does
FirstIndex(args, P(_, _)) ==
    IF \E k \in 1..Len(args) : P(args, k)
    THEN CHOOSE k \in 1..Len(args) :
            P(args, k) /\ \A j \in 1..(k - 1) : ~P(args, j)
    ELSE 0

\* the elements of args at the indices of keep, in their original order
RECURSIVE Pick(_, _, _)
Pick(args, keep, k) ==
    IF k > Len(args) THEN <<>>
    ELSE (IF k \in keep THEN <<args[k]>> ELSE <<>>) \o Pick(args, keep, k + 1)

\* the calls of convert_npx_to_binary and extract_packages_from_config
InConvertLoop == script = "convert" /\ pc = "loop"
FirstConvertReturned == script = "convert" /\ Len(results) >= 1
InExtractLoop == script = "dockerfile" /\ pc = "loop"
Extracted == script = "dockerfile" /\ pc \in {"extracted", "generated"}

\* the lines printed while entry j was at hand
LinesFor(name) == {k \in 1..Len(log) : log[k].server = name}

-----------------------------------------------------------------------------
(* C1 *)

C1_NotDispatch(e) == Command(e) # NPX /\ Command(e) # UVX

\* every entry emitted so far for a non-dispatch command equals its input
C1_ConvertIdentical ==
    InConvertLoop =>
        \A j \in 1..Len(converted_config.mcpServers) :
            C1_NotDispatch(config.mcpServers[j].cfg) =>
                converted_config.mcpServers[j] = config.mcpServers[j]

\* the step of extraction over a non-dispatch entry adds nothing
C1_ExtractAddsNothing ==
    (InExtractLoop /\ i <= Len(config.mcpServers)
        /\ C1_NotDispatch(config.mcpServers[i].cfg))
    => packages' = packages

\* the step of extraction over a non-dispatch entry adds nothing, except that
\* 'python' with args ['-m', x, ...] adds x to the pip set
C1_ExtractAddsOnlyPythonModule ==
    (InExtractLoop /\ i <= Len(config.mcpServers)
        /\ C1_NotDispatch(config.mcpServers[i].cfg))
    => LET e == config.mcpServers[i].cfg IN
       IF Command(e) = PYTHON /\ Len(Args(e)) >= 2 /\ Args(e)[1] = DashM
       THEN packages' = [packages EXCEPT !.pip = @ \cup {Args(e)[2]}]
       ELSE packages' = packages

\* C1 as stated: for every entry whose command is neither 'npx' nor 'uvx',
\* whatever its args, the rewrite emits the entry identical to its input and
\* extraction adds nothing to the npm, pip or uv set on its account.
C1_AsStated == []C1_ConvertIdentical /\ [][C1_ExtractAddsNothing]_vars

\* C1 amended: for every entry whose command is neither 'npx' nor 'uvx', the
\* rewrite emits the entry identical to its input, and extraction adds
\* nothing on its account unless the command is 'python' and the args begin
\* with '-m' and a second argument, which is then added to the pip set only.
C1_Amended == []C1_ConvertIdentical /\ [][C1_ExtractAddsOnlyPythonModule]_vars

\* a python -m entry was extracted and its module is the pip set
C1_Witness ==
    /\ Extracted
    /\ \E j \in 1..Len(Items(config)) :
          /\ Command(config.mcpServers[j].cfg) = PYTHON
          /\ Args(config.mcpServers[j].cfg) = <<DashM, TokPlain>>
    /\ packages.pip = {TokPlain}

-----------------------------------------------------------------------------
(* C2 *)

\* the failure conditions of the lookup of package p
C2_Fails(p) ==
    \/ ~fs.npm_root_ok
    \/ p \notin DOMAIN fs.node_modules
    \/ LET st == fs.node_modules[p] IN
       \/ ~st.exists
       \/ st.package_json = "missing"
       \/ st.bin = None
       \/ st.bin[1].type = "str" /\ st.bin[1].str = <<>>
       \/ st.bin[1].type = "dict" /\ st.bin[1].keys = <<>>

\* C2: an npx entry whose package hits a failure condition (root query
\* fails, install directory missing, package.json missing, 'bin' missing or
\* empty) is emitted with its original command and args, and the run goes
\* on: the output holds exactly the server names of the input.
C2_FailureKeepsEntry ==
    /\ InConvertLoop =>
        \A j \in 1..Len(converted_config.mcpServers) :
            LET e == config.mcpServers[j].cfg IN
            (/\ IsNpxCall(Command(e), Args(e))
             /\ j = i - 1
             /\ Truthy(package_name)
             /\ C2_Fails(package_name[1]))
            => converted_config.mcpServers[j].cfg = e
    /\ (FirstConvertReturned /\ "mcpServers" \in DOMAIN original_config) =>
        /\ Len(results[1].mcpServers) = Len(original_config.mcpServers)
        /\ \A j \in 1..Len(original_config.mcpServers) :
              results[1].mcpServers[j].name = original_config.mcpServers[j].name

-----------------------------------------------------------------------------
(* C3 *)

\* the first application resolved entry j
C3_Resolved(j) == results[1].mcpServers[j] # original_config.mcpServers[j]

C3_NoBinaryNamedNpx ==
    "mcpServers" \in DOMAIN original_config =>
        \A j \in 1..Len(original_config.mcpServers) :
            C3_Resolved(j) => Command(results[1].mcpServers[j].cfg) # NPX

\* C3 as stated: applying the rewrite to its own output returns that output
\* unchanged, whatever binary name the package manifest declared.
C3_AsStated ==
    (script = "convert" /\ Len(results) = 2) => results[2] = results[1]

\* C3 amended: applying the rewrite to its own output returns that output
\* unchanged, provided no entry was resolved to a binary named 'npx'.
C3_Amended ==
    (script = "convert" /\ Len(results) = 2 /\ C3_NoBinaryNamedNpx)
    => results[2] = results[1]

\* the second application returned, after the first resolved an entry that
\* kept a pass-through argument
C3_Witness ==
    /\ script = "convert" /\ Len(results) = 2
    /\ C3_NoBinaryNamedNpx
    /\ \E j \in 1..Len(Items(original_config)) :
          /\ C3_Resolved(j)
          /\ Args(results[1].mcpServers[j].cfg) = <<TokPlain>>
          /\ fs.node_modules[TokPlain].exists

-----------------------------------------------------------------------------
(* C4 *)

C4_IsPackageToken(args, k) == IsScoped(args[k]) \/ ~IsFlag(args[k])

\* C4: of an npx argument list, every '-y' is discarded, the package is the
\* first token that is '@'-prefixed or does not begin with '-', and every
\* other token is passed through in order.
C4_Classification ==
    (InConvertLoop /\ i > 1
        /\ IsNpxCall(Command(config.mcpServers[i - 1].cfg),
                     Args(config.mcpServers[i - 1].cfg)))
    => LET args == Args(config.mcpServers[i - 1].cfg)
           at == FirstIndex(args, C4_IsPackageToken)
           keep == {k \in 1..Len(args) : args[k] # DashY /\ k # at}
       IN  /\ package_name = (IF at = 0 THEN None ELSE Some(args[at]))
           /\ remaining_args = Pick(args, keep, 1)

-----------------------------------------------------------------------------
(* C5 *)

Written == script = "render" /\ pc = "written"

\* where the placeholder starts in a line
C5_Starts(line) ==
    {k \in 1..Len(line) :
        /\ k + Len(Placeholder) - 1 <= Len(line)
        /\ \A j \in 1..Len(Placeholder) : line[k + j - 1] = Placeholder[j]}

C5_HasPlaceholder(line) == C5_Starts(line) # {}

C5_PlaceholderLines == {k \in 1..Len(template_content) :
                            C5_HasPlaceholder(template_content[k])}

\* the plan's commands in plan order, the separator between neighbours
RECURSIVE C5_Joined(_)
C5_Joined(plan) ==
    IF Len(plan) = 1 THEN plan[1]
    ELSE C5_Joined(SubSeq(plan, 1, Len(plan) - 1))
            \o <<" ", "\\", "\n">> \o plan[Len(plan)]

\* the line from position k on, each placeholder substituted by text
RECURSIVE C5_Substituted(_, _, _)
C5_Substituted(line, k, text) ==
    IF k > Len(line) THEN <<>>
    ELSE IF k \in C5_Starts(line)
    THEN text \o C5_Substituted(line, k + Len(Placeholder), text)
    ELSE <<line[k]>> \o C5_Substituted(line, k + 1, text)

\* the lines of the template that hold no placeholder, in order
C5_PlainLines ==
    Pick(template_content, (1..Len(template_content)) \ C5_PlaceholderLines, 1)

\* lines without the placeholder pass unchanged and in order; with a plan,
\* a placeholder line becomes one line with the joined commands in place of
\* the placeholder; without a plan, placeholder lines are omitted
C5_Rendering ==
    IF install_lines # <<>>
    THEN /\ Len(output_lines) = Len(template_content)
         /\ \A k \in 1..Len(template_content) :
               output_lines[k] =
                   IF k \in C5_PlaceholderLines
                   THEN C5_Substituted(template_content[k], 1,
                                       C5_Joined(install_lines))
                   ELSE template_content[k]
    ELSE output_lines = C5_PlainLines

\* C5 as stated: the rendering above, and with an empty plan the output of a
\* template with a placeholder line has exactly one line less than the
\* template.
C5_AsStated ==
    Written =>
        /\ C5_Rendering
        /\ (install_lines = <<>> /\ C5_PlaceholderLines # {}) =>
              Len(output_lines) = Len(template_content) - 1

\* C5 amended: the rendering above, and with an empty plan the output has as
\* many lines less than the template as the template has placeholder lines
\* (exactly one less when it has exactly one).
C5_Amended ==
    Written =>
        /\ C5_Rendering
        /\ install_lines = <<>> =>
              Len(output_lines) =
                  Len(template_content) - Cardinality(C5_PlaceholderLines)

\* a template with a placeholder line and a plain line was rendered with a
\* plan of two commands
C5_Witness ==
    /\ Written
    /\ Len(install_lines) = 2
    /\ \E k \in 1..Len(template_content) : template_content[k] = PlaceholderLine
    /\ \E k \in 1..Len(template_content) : template_content[k] = PlainLine

-----------------------------------------------------------------------------
(* C9 (stated before C6, which counts the packages C9 finds) *)

C9_NpxHit(args, k) == IsScoped(args[k]) \/ (~IsFlag(args[k]) /\ k # 1)
C9_UvxHit(args, k) == ~IsFlag(args[k])

\* the package the per-command rule gives for an entry, as a set of pairs
C9_RuleAsStated(e) ==
    LET args == Args(e) IN
    IF Command(e) = NPX
    THEN LET at == FirstIndex(args, C9_NpxHit) IN
         IF at = 0 THEN {} ELSE {<<"npm", args[at]>>}
    ELSE IF Command(e) = UVX
    THEN LET at == FirstIndex(args, C9_UvxHit) IN
         IF at = 0 THEN {} ELSE {<<"uv", args[at]>>}
    ELSE IF Command(e) = PYTHON /\ Len(args) >= 2 /\ args[1] = DashM
    THEN {<<"pip", args[2]>>}
    ELSE {}

\* the same rule, an empty string found for npx or uvx giving no package
C9_RuleAmended(e) ==
    {p \in C9_RuleAsStated(e) : p[1] \in {"npm", "uv"} => p[2] # <<>>}

C9_PairsAsStated ==
    UNION {C9_RuleAsStated(config.mcpServers[j].cfg) :
              j \in 1..Len(Items(config))}

C9_PairsAmended ==
    UNION {C9_RuleAmended(config.mcpServers[j].cfg) :
              j \in 1..Len(Items(config))}

C9_PackagesAre(pairs) ==
    \A eco \in {"npm", "pip", "uv"} :
        packages[eco] = {p[2] : p \in {q \in pairs : q[1] = eco}}

\* C9 as stated: the package sets are the union over the entries of the
\* package the per-command rule gives (npx: first argument that is
\* '@'-prefixed or a non-flag at an index other than 0; uvx: first non-flag
\* argument; python: the argument after a leading '-m').
C9_AsStated == Extracted => C9_PackagesAre(C9_PairsAsStated)

\* C9 amended: the same, except that when the argument the npx or uvx rule
\* finds is the empty string the entry gives no package.
C9_Amended == Extracted => C9_PackagesAre(C9_PairsAmended)

\* an npx entry whose first argument is a plain name and is passed over
C9_Witness ==
    /\ Extracted
    /\ \E j \in 1..Len(Items(config)) :
          /\ Command(config.mcpServers[j].cfg) = NPX
          /\ Args(config.mcpServers[j].cfg) = <<TokPlain, TokScoped>>
    /\ packages.npm = {TokScoped}

-----------------------------------------------------------------------------
(* C6 *)

C6_Rank(eco) == CASE eco = "npm" -> 1 [] eco = "pip" -> 2 [] eco = "uv" -> 3

C6_Prefix(eco) ==
    CASE eco = "npm" -> NpmPrefix [] eco = "pip" -> PipPrefix
      [] eco = "uv" -> UvPrefix

\* a comes before b lexicographically
C6_LexLess(a, b) ==
    \E k \in 1..(Len(b)) :
        /\ \A j \in 1..(k - 1) : j <= Len(a) /\ a[j] = b[j]
        /\ \/ Len(a) = k - 1
           \/ Len(a) >= k /\ Ord(a[k]) < Ord(b[k])

C6_PairBefore(p, q) ==
    \/ C6_Rank(p[1]) < C6_Rank(q[1])
    \/ p[1] = q[1] /\ C6_LexLess(p[2], q[2])

\* C6: the plan holds exactly one command per distinct (ecosystem, package)
\* pair found in the configuration, the groups in the order npm, pip, uv and
\* each group sorted by package, so it does not depend on the order of the
\* entries or on duplicates.
C6_PlanIsSortedPairs ==
    (script = "dockerfile" /\ pc = "generated") =>
        /\ Len(install_lines) = Cardinality(C9_PairsAmended)
        /\ \A p \in C9_PairsAmended :
              LET at == 1 + Cardinality({q \in C9_PairsAmended :
                                            C6_PairBefore(q, p)})
              IN  install_lines[at] = C6_Prefix(p[1]) \o p[2]

\* four entries declared uv, pip, pip, npm, the larger pip package first:
\* the plan holds the npm command, the two pip commands sorted, the uv command
C6_Witness ==
    /\ script = "dockerfile" /\ pc = "generated"
    /\ Len(Items(config)) = 4
    /\ config.mcpServers[1].cfg = [command |-> UVX, args |-> <<TokPlain>>]
    /\ config.mcpServers[2].cfg = [command |-> PYTHON, args |-> <<DashM, TokPlain>>]
    /\ config.mcpServers[3].cfg = [command |-> PYTHON, args |-> <<DashM, TokScoped>>]
    /\ config.mcpServers[4].cfg = [command |-> NPX, args |-> <<TokScoped>>]
    /\ install_lines = <<NpmPrefix \o TokScoped, PipPrefix \o TokScoped,
                         PipPrefix \o TokPlain, UvPrefix \o TokPlain>>

-----------------------------------------------------------------------------
(* C7 *)

C7_NoEntries == Items(original_config) = <<>>

\* C7 as stated: for a configuration with no server entries ('mcpServers'
\* empty or absent) the rewrite returns {"mcpServers": {}} and extraction
\* returns empty package sets.
C7_AsStated ==
    /\ (FirstConvertReturned /\ C7_NoEntries) =>
          results[1] = [mcpServers |-> <<>>]
    /\ (Extracted /\ C7_NoEntries) => packages = NoPackages

\* C7 amended: with 'mcpServers' empty the rewrite returns
\* {"mcpServers": {}}, with the key absent it returns the input
\* configuration unchanged; extraction returns empty package sets in both.
C7_Amended ==
    /\ (FirstConvertReturned /\ C7_NoEntries) =>
          IF "mcpServers" \in DOMAIN original_config
          THEN results[1] = [mcpServers |-> <<>>]
          ELSE results[1] = original_config
    /\ (Extracted /\ C7_NoEntries) => packages = NoPackages

\* the rewrite returned for a configuration without the key
C7_Witness ==
    /\ FirstConvertReturned
    /\ original_config = [version |-> 1]
    /\ results[1] = [version |-> 1]

-----------------------------------------------------------------------------
(* C8 *)

\* C8: every npx entry the rewrite leaves unconverted, and every entry from
\* which extraction derives no package, has at least one line printed for it.
C8_NothingSilent ==
    /\ InConvertLoop =>
          \A j \in 1..Len(converted_config.mcpServers) :
              LET e == config.mcpServers[j].cfg IN
              (IsNpxCall(Command(e), Args(e))
                  /\ converted_config.mcpServers[j].cfg = e)
              => LinesFor(config.mcpServers[j].name) # {}
    /\ InExtractLoop =>
          \A j \in 1..(i - 1) :
              C9_RuleAmended(config.mcpServers[j].cfg) = {}
              => LinesFor(config.mcpServers[j].name) # {}

-----------------------------------------------------------------------------
(* C10 *)

\* C10: the rewrite keeps every top-level key other than 'mcpServers' and
\* every field of an entry other than 'command' and 'args', and leaves its
\* input unmodified.
C10_Frame ==
    (script = "convert" /\ pc = "returned" /\ Len(results) = 1) =>
        /\ \A k \in DOMAIN original_config \ {"mcpServers"} :
              k \in DOMAIN results[1] /\ results[1][k] = original_config[k]
        /\ \A j \in 1..Len(Items(original_config)) :
              \A k \in DOMAIN original_config.mcpServers[j].cfg
                          \ {"command", "args"} :
                  /\ k \in DOMAIN results[1].mcpServers[j].cfg
                  /\ results[1].mcpServers[j].cfg[k] =
                        original_config.mcpServers[j].cfg[k]
        /\ config = original_config

====
